---- MODULE Spec2Model ----
(***************************************************************************)
(* The scoped thread pool of src/src/scoped_threadpool.rs (Pool, Scope,    *)
(* the worker loop and the two-step join handshake) and the per-frame      *)
(* accumulation of src/src/app_softbuffer.rs (count round, pixel round)    *)
(* that runs on it.                                                        *)
(*                                                                         *)
(* The main thread is the caller of Pool::scoped; the workers are the      *)
(* threads spawned by Pool::new.  Channels are modelled by what they do:   *)
(* job_sender/job_receiver is an unbounded FIFO, pool_sync and thread_sync *)
(* are rendezvous channels (sync_channel(0)): a send and its recv happen   *)
(* together, and either end fails once the other end has been dropped.     *)
(***************************************************************************)
EXTENDS Integers, Sequences, FiniteSets, TLC

\* Bounds of the model.
MaxThreads == 2     \* pool sizes 1..MaxThreads
MaxJobs    == 3     \* jobs handed to execute over one run
MaxScopes  == 2     \* calls of Pool::scoped over one run
MaxJoins   == 1     \* explicit join_all calls inside one closure
MaxParticles == 2   \* Particle values in Particles.particles
Lanes      == 1     \* points carried by one Particle (the lanes of F32s)
MaxFrames  == 2     \* RedrawRequested events handled over one run

\* AtomicU16: fetch_add wraps modulo 2^16.
U16Mod == 65536

\* Window sizes of the model, <<width, height>>.  Both are powers of two, so
\* that index / width and index / height are exact in f32 and the colour of a
\* cell can be computed in integers.
GridSizes == {<<4, 2>>, <<2, 4>>}

\* A tall window: with 64 cells a chunk of the pixel round is longer than one
\* cell for a pool of one or two threads (64 / 1 / 10 = 6, 64 / 2 / 10 = 3).
TallSize == <<2, 32>>

VARIABLES
    n,               \* the argument of Pool::new; Pool.threads.len() once the pool exists
    poolAlive,       \* the Pool value exists (job_sender, pool_sync_rx, thread_sync_tx)
    queue,           \* messages in the job channel, oldest first
    threads,         \* per worker: position in the worker loop and the job it runs
    jobs,            \* every closure handed to execute, in submission order
    mpc,             \* position of the main thread
    ji,              \* loop index inside join_all
    worker_panic,    \* join_all's local flag
    joinKind,        \* who called join_all: the closure ("explicit") or Drop ("drop")
    unwinding,       \* a panic is propagating through Pool::scoped
    closurePanicked, \* the closure f itself panicked in the current scoped call
    result,          \* how the last Pool::scoped call ended
    scopes,          \* scoped calls started so far
    joins,           \* explicit join_all calls made by the current closure
    barrier,         \* join_all calls started so far
    reported,        \* join_all has raised "Thread pool worker panicked"
    live,            \* Scope values that exist: Pool::scoped calls not yet ended
    size,            \* AppData.size
    particles,       \* AppData.particles.particles; coordinates in half units
    count_buffer,    \* AppData.count_buffer
    pixel_buffer,    \* the surface's buffer (buffer_mut)
    phase,           \* position inside the RedrawRequested handler
    next_chunk,      \* chunks handed to execute by the current closure
    frames,          \* RedrawRequested events handled
    last_counts,     \* count_buffer as the previous count round left it
    cursor           \* per worker: points the running count job has processed

poolVars == <<n, poolAlive, queue, threads, jobs, mpc, ji, worker_panic, joinKind,
              unwinding, closurePanicked, result, scopes, joins, barrier, reported,
              live>>

frameVars == <<size, particles, count_buffer, pixel_buffer, phase, next_chunk, frames,
               last_counts>>

vars == <<poolVars, frameVars, cursor>>

\* The worker threads spawned so far (ThreadData entries), by id.
Workers == DOMAIN threads

\* Pool::thread_count: self.threads.len()
ThreadCount == Cardinality(DOMAIN threads)

NewJob(j) == [type |-> "NewJob", job |-> j]
Join      == [type |-> "Join", job |-> 0]

\* A worker thread that has neither unwound from a panicking job nor left its loop.
Alive(w) == threads[w].pc \notin {"panicked", "exited"}

\* The Receiver lives in an Arc held only by the worker threads.
ReceiverAlive == \E w \in Workers : Alive(w)

JoinPcs == {"join_send", "join_recv", "join_check", "join_resume"}

----------------------------------------------------------------------------
\* Pool::new(n): n workers, all waiting for their first message.

PoolNew ==
    /\ n \in 1 .. MaxThreads
    /\ poolAlive = TRUE
    /\ queue = <<>>
    /\ threads = [w \in 0 .. (n - 1) |-> [pc |-> "recv", job |-> 0]]
    /\ jobs = <<>>
    /\ mpc = "outside"
    /\ ji = 0
    /\ worker_panic = FALSE
    /\ joinKind = "drop"
    /\ unwinding = FALSE
    /\ closurePanicked = FALSE
    /\ result = "none"
    /\ scopes = 0
    /\ joins = 0
    /\ barrier = 0
    /\ reported = FALSE
    /\ live = 0
    /\ cursor = [w \in 0 .. (n - 1) |-> 0]

\* A program that uses the pool directly (as the tests do): no window.
Init ==
    /\ PoolNew
    /\ size = <<0, 0>>
    /\ particles = <<>>
    /\ count_buffer = <<>>
    /\ pixel_buffer = <<>>
    /\ phase = "none"
    /\ next_chunk = 0
    /\ frames = 0
    /\ last_counts = <<>>

----------------------------------------------------------------------------
\* The main thread.

\* Pool::scoped builds the Scope and calls f(&scope).
EnterScoped ==
    /\ mpc' = "closure"
    /\ scopes' = scopes + 1
    /\ result' = "none"
    /\ unwinding' = FALSE
    /\ closurePanicked' = FALSE
    /\ joins' = 0
    /\ live' = live + 1

\* The program calls pool.scoped(f).
Scoped ==
    /\ mpc = "outside"
    /\ poolAlive
    /\ scopes < MaxScopes
    /\ EnterScoped
    /\ UNCHANGED <<n, poolAlive, queue, threads, jobs, ji, worker_panic, joinKind,
                   barrier, reported>>
    /\ UNCHANGED <<frameVars, cursor>>

\* The closure of a scoped call calls pool.scoped(g) on the same pool: scoped
\* takes &self, and the closure may hold a shared reference to the Pool.
NestedScoped ==
    /\ mpc = "closure"
    /\ scopes < MaxScopes
    /\ EnterScoped
    /\ UNCHANGED <<n, poolAlive, queue, threads, jobs, ji, worker_panic, joinKind,
                   barrier, reported>>
    /\ UNCHANGED <<frameVars, cursor>>

\* Entry of join_all: the loops start from the first thread.
BeginJoin(kind, unw) ==
    /\ mpc' = "join_send"
    /\ ji' = 0
    /\ worker_panic' = FALSE
    /\ joinKind' = kind
    /\ unwinding' = unw
    /\ barrier' = barrier + 1

\* Drop for Scope has ended and with it the Pool::scoped call, normally or (unw)
\* with a panic.  The caller is the program, or the closure of an enclosing
\* scoped call of the same pool; a panic that reaches that closure unwinds it,
\* and the enclosing Scope is dropped in turn.
LeaveScoped(unw) ==
    /\ live' = live - 1
    /\ IF live > 1 /\ unw
       THEN /\ BeginJoin("drop", TRUE)
            /\ UNCHANGED result
       ELSE /\ mpc' = IF live > 1 THEN "closure" ELSE "outside"
            /\ ji' = 0
            /\ result' = IF unw THEN "panicked" ELSE "returned"
            /\ UNCHANGED <<worker_panic, joinKind, unwinding, barrier>>

\* A panic raised inside join_all.  From an explicit call it unwinds the closure
\* and Drop for Scope calls join_all again; from Drop it leaves scoped, unless a
\* panic is already unwinding, which aborts the process.
PanicInJoin ==
    IF joinKind = "explicit"
    THEN /\ BeginJoin("drop", TRUE)
         /\ UNCHANGED <<result, live>>
    ELSE IF unwinding
         THEN /\ mpc' = "aborted"
              /\ UNCHANGED <<ji, worker_panic, joinKind, unwinding, barrier, result, live>>
         ELSE LeaveScoped(TRUE)

\* The closure boxed by execute: the scope and barrier it was submitted in, whether
\* it panics when called, and what it does (kind, and the chunk lo .. hi - 1); id
\* is the argument call_box gives it, -1 while it is not being called.
JobRec(kind, lo, hi, p) ==
    [scope |-> scopes, epoch |-> barrier, panics |-> p, st |-> "queued",
     kind |-> kind, lo |-> lo, hi |-> hi, id |-> -1]

\* Scope::execute: job_sender.send(NewJob(b)).unwrap().  The send fails, and the
\* unwrap panics inside the closure, once every worker has dropped the receiver.
ExecuteJob(rec) ==
    IF ReceiverAlive
    THEN /\ jobs' = Append(jobs, rec)
         /\ queue' = Append(queue, NewJob(Len(jobs) + 1))
         /\ UNCHANGED <<mpc, ji, worker_panic, joinKind, unwinding, barrier>>
    ELSE /\ BeginJoin("drop", TRUE)
         /\ UNCHANGED <<jobs, queue>>

\* The closure submits a job that returns (p = FALSE) or panics (p = TRUE).
Execute(p) ==
    /\ mpc = "closure"
    /\ Len(jobs) < MaxJobs
    /\ ExecuteJob(JobRec("plain", 0, 0, p))
    /\ UNCHANGED <<n, live, poolAlive, threads, closurePanicked, result, scopes, joins, reported>>
    /\ UNCHANGED <<frameVars, cursor>>

\* The closure calls scope.join_all().
JoinAllCall ==
    /\ mpc = "closure"
    /\ joins < MaxJoins
    /\ joins' = joins + 1
    /\ BeginJoin("explicit", FALSE)
    /\ UNCHANGED <<n, live, poolAlive, queue, threads, jobs, closurePanicked, result, scopes,
                   reported>>
    /\ UNCHANGED <<frameVars, cursor>>

\* Variant: the Scope is destroyed without its join (no Drop for Scope).
ClosureReturnNoJoin ==
    /\ mpc = "closure"
    /\ mpc' = "outside"
    /\ result' = "returned"
    /\ live' = live - 1
    /\ UNCHANGED <<n, poolAlive, queue, threads, jobs, ji, worker_panic, joinKind,
                   unwinding, closurePanicked, scopes, joins, barrier, reported>>
    /\ UNCHANGED <<frameVars, cursor>>

\* f returns; the Scope is dropped at the end of Pool::scoped.
ClosureReturn ==
    /\ mpc = "closure"
    /\ BeginJoin("drop", FALSE)
    /\ UNCHANGED <<n, live, poolAlive, queue, threads, jobs, closurePanicked, result, scopes,
                   joins, reported>>
    /\ UNCHANGED <<frameVars, cursor>>

\* Variant: the unwinding panic leaves scoped without running the join.
ClosurePanicNoJoin ==
    /\ mpc = "closure"
    /\ closurePanicked' = TRUE
    /\ mpc' = "outside"
    /\ result' = "panicked"
    /\ live' = live - 1
    /\ UNCHANGED <<n, poolAlive, queue, threads, jobs, ji, worker_panic, joinKind,
                   unwinding, scopes, joins, barrier, reported>>
    /\ UNCHANGED <<frameVars, cursor>>

\* f panics; the Scope is dropped while the panic unwinds.
ClosurePanic ==
    /\ mpc = "closure"
    /\ closurePanicked' = TRUE
    /\ BeginJoin("drop", TRUE)
    /\ UNCHANGED <<n, live, poolAlive, queue, threads, jobs, result, scopes, joins, reported>>
    /\ UNCHANGED <<frameVars, cursor>>

\* Variant: join_all sends a single Join message, whatever the number of threads.
JoinSendOnce ==
    /\ mpc = "join_send"
    /\ IF ReceiverAlive
       THEN /\ queue' = Append(queue, Join)
            /\ ji' = 0
            /\ mpc' = "join_recv"
            /\ UNCHANGED <<worker_panic, joinKind, unwinding, barrier, result, live>>
       ELSE /\ PanicInJoin
            /\ UNCHANGED queue
    /\ UNCHANGED <<n, poolAlive, threads, jobs, closurePanicked, scopes, joins, reported>>
    /\ UNCHANGED <<frameVars, cursor>>

\* join_all, first loop: one Join message per thread.
JoinSend ==
    /\ mpc = "join_send"
    /\ IF ReceiverAlive
       THEN /\ queue' = Append(queue, Join)
            /\ IF ji + 1 < n
               THEN /\ ji' = ji + 1
                    /\ mpc' = mpc
               ELSE /\ ji' = 0
                    /\ mpc' = "join_recv"
            /\ UNCHANGED <<worker_panic, joinKind, unwinding, barrier, result, live>>
       ELSE /\ PanicInJoin
            /\ UNCHANGED queue
    /\ UNCHANGED <<n, poolAlive, threads, jobs, closurePanicked, scopes, joins, reported>>
    /\ UNCHANGED <<frameVars, cursor>>

\* Variant: the first Err of the second loop ends the loop at once, before the
\* remaining threads have been waited for.
JoinRecvEarlyPanic ==
    /\ mpc = "join_recv"
    /\ threads[ji].pc = "send_sync" \/ ~Alive(ji)
    /\ IF threads[ji].pc = "send_sync"
       THEN /\ threads' = [threads EXCEPT ![ji].pc = "wait_sync"]
            /\ worker_panic' = worker_panic
            /\ IF ji + 1 < n
               THEN /\ ji' = ji + 1
                    /\ mpc' = mpc
               ELSE /\ ji' = 0
                    /\ mpc' = "join_check"
       ELSE /\ worker_panic' = TRUE
            /\ ji' = 0
            /\ mpc' = "join_check"
            /\ UNCHANGED threads
    /\ UNCHANGED <<n, live, poolAlive, queue, jobs, joinKind, unwinding, closurePanicked,
                   result, scopes, joins, barrier, reported>>
    /\ UNCHANGED <<frameVars, cursor>>

\* Variant: a single-step join that resumes a worker as soon as it has paused,
\* without waiting for the other workers.
JoinRecvResumeAtOnce ==
    /\ mpc = "join_recv"
    /\ threads[ji].pc = "send_sync" \/ ~Alive(ji)
    /\ IF threads[ji].pc = "send_sync"
       THEN /\ threads' = [threads EXCEPT ![ji].pc = "recv"]
            /\ worker_panic' = worker_panic
       ELSE /\ worker_panic' = TRUE
            /\ UNCHANGED threads
    /\ live' = IF ji + 1 < n \/ worker_panic' \/ joinKind = "explicit"
               THEN live ELSE live - 1
    /\ IF ji + 1 < n
       THEN /\ ji' = ji + 1
            /\ UNCHANGED <<mpc, result>>
       ELSE /\ ji' = 0
            /\ mpc' = IF worker_panic' THEN "join_check"
                      ELSE IF joinKind = "explicit" THEN "closure" ELSE "outside"
            /\ result' = IF worker_panic' \/ joinKind = "explicit" THEN result
                         ELSE IF unwinding THEN "panicked" ELSE "returned"
    /\ UNCHANGED <<n, poolAlive, queue, jobs, joinKind, unwinding, closurePanicked,
                   scopes, joins, barrier, reported>>
    /\ UNCHANGED <<frameVars, cursor>>

\* join_all, second loop: pool_sync_rx.recv() of thread ji.  It returns once the
\* worker is in pool_sync_tx.send(()), or with Err once the worker has unwound.
JoinRecv ==
    /\ mpc = "join_recv"
    /\ threads[ji].pc = "send_sync" \/ ~Alive(ji)
    /\ IF threads[ji].pc = "send_sync"
       THEN /\ threads' = [threads EXCEPT ![ji].pc = "wait_sync"]
            /\ worker_panic' = worker_panic
       ELSE /\ worker_panic' = TRUE
            /\ UNCHANGED threads
    /\ IF ji + 1 < n
       THEN /\ ji' = ji + 1
            /\ mpc' = mpc
       ELSE /\ ji' = 0
            /\ mpc' = "join_check"
    /\ UNCHANGED <<n, live, poolAlive, queue, jobs, joinKind, unwinding, closurePanicked,
                   result, scopes, joins, barrier, reported>>
    /\ UNCHANGED <<frameVars, cursor>>

\* join_all: if worker_panic { panic!("Thread pool worker panicked") }.
JoinCheck ==
    /\ mpc = "join_check"
    /\ IF worker_panic
       THEN /\ PanicInJoin
            /\ reported' = TRUE
       ELSE /\ mpc' = "join_resume"
            /\ UNCHANGED <<ji, worker_panic, joinKind, unwinding, barrier, result,
                           reported, live>>
    /\ UNCHANGED <<n, poolAlive, queue, threads, jobs, closurePanicked, scopes, joins>>
    /\ UNCHANGED <<frameVars, cursor>>

\* join_all, third loop: thread_sync_tx.send(()).unwrap() to thread ji; after the
\* last one join_all returns, to the closure or out of Pool::scoped.
JoinResume ==
    /\ mpc = "join_resume"
    /\ threads[ji].pc = "wait_sync" \/ ~Alive(ji)
    /\ IF threads[ji].pc = "wait_sync"
       THEN /\ threads' = [threads EXCEPT ![ji].pc = "recv"]
            /\ IF ji + 1 < n
               THEN /\ ji' = ji + 1
                    /\ UNCHANGED <<mpc, result, worker_panic, joinKind, unwinding,
                                   barrier, live>>
               ELSE IF joinKind = "explicit"
                    THEN /\ ji' = 0
                         /\ mpc' = "closure"
                         /\ UNCHANGED <<result, worker_panic, joinKind, unwinding,
                                        barrier, live>>
                    ELSE LeaveScoped(unwinding)
       ELSE /\ PanicInJoin
            /\ UNCHANGED threads
    /\ UNCHANGED <<n, poolAlive, queue, jobs, closurePanicked, scopes, joins, reported>>
    /\ UNCHANGED <<frameVars, cursor>>

\* The Pool value goes out of scope: job_sender and every ThreadData are dropped.
\* Dropping a JoinHandle detaches the thread.
DropPool ==
    /\ mpc = "outside"
    /\ poolAlive
    /\ poolAlive' = FALSE
    /\ mpc' = "dropped"
    /\ UNCHANGED <<n, live, queue, threads, jobs, ji, worker_panic, joinKind, unwinding,
                   closurePanicked, result, scopes, joins, barrier, reported>>
    /\ UNCHANGED <<frameVars, cursor>>

----------------------------------------------------------------------------
\* The accumulation of one frame (App::window_event, RedrawRequested).
\* A coordinate c of the model stands for the f32 value c / 2.

Max(a, b) == IF a >= b THEN a ELSE b
Min(a, b) == IF a <= b THEN a ELSE b

Zeros(len) == [i \in 1 .. len |-> 0]

\* usize::max(len / thread_count / 10, 1), for a pool of k threads.
ChunkLenFor(len, k) == Max((len \div k) \div 10, 1)
ChunkLen(len) == ChunkLenFor(len, n)

\* slice::chunks(cl): the last chunk may be shorter.
NumChunks(len, cl) == (len + cl - 1) \div cl

\* slice::chunks_exact_mut(cl): only whole chunks; the remainder is left out.
NumExactChunks(len, cl) == len \div cl

\* `f as usize`: truncation toward zero, negative values saturate to 0.
AsUsize(c) == IF c < 0 THEN 0 ELSE c \div 2

\* usize::clamp(lo, hi)
Clamp(v, lo, hi) == IF v < lo THEN lo ELSE IF v > hi THEN hi ELSE v

\* Variant: only the lower bounds are tested.
InsideLowerOnly(p, w, h) == p.x >= 0 /\ p.y >= 0

\* inside = x >= 0.0 && x < width - 1.0 && y >= 0.0 && y < height - 1.0
Inside(p, w, h) ==
    /\ p.x >= 0
    /\ p.x < 2 * (w - 1)
    /\ p.y >= 0
    /\ p.y < 2 * (h - 1)

\* x + y * width, of the clamped coordinates
CellIndex(p, w, h) ==
    Clamp(AsUsize(p.x), 0, w - 1) + Clamp(AsUsize(p.y), 0, h - 1) * w

\* count_buffer_ref[idx].fetch_add(v, Relaxed)
FetchAdd(buf, idx, v) == [buf EXCEPT ![idx + 1] = (@ + v) % U16Mod]

\* Variant: the counts of the last frame are kept.
KeepCounts(buf) == buf

\* count_buffer.iter().for_each(|count| count.store(0, Relaxed))
ResetCounts(buf) == Zeros(Len(buf))

\* The colour of the cell at index, from its count (lines 221-232).  `as u8`
\* truncates and saturates at 255.
Pixel(count, index, w, h) ==
    LET c10   == count * 10
        upper == IF c10 > 255 THEN (c10 - 255) \div 5 ELSE 0
        c     == Min(c10, 255)
        col   == index % w
        row   == index \div w
        red   == Min((col * c) \div w + upper, 255)
        green == Min((row * c) \div h + upper, 255)
        blue  == Min(((w - col) * (h - row) * c) \div (w * h) + upper, 255)
    IN  red * 65536 + green * 256 + blue

\* The points a count job visits: Lanes per particle of its chunk.
CountJobLen(job) == (job.hi - job.lo) * Lanes
LaneAt(job, c) == particles[job.lo + (c \div Lanes) + 1][(c % Lanes) + 1]

\* The body of the job a worker runs has reached its end.
JobBodyDone(w) ==
    LET job == jobs[threads[w].job]
    IN  CASE job.kind = "plain" -> TRUE
          [] job.kind = "count" -> cursor[w] = CountJobLen(job)
          [] job.kind = "pixel" -> FALSE

----------------------------------------------------------------------------
\* The worker threads.

\* Variant: every job is called with id 0.
CallBoxIdZero(js, j, id) == [js EXCEPT ![j].st = "running", ![j].id = 0]

\* job.call_box(id): the closure is called with the id of the calling worker.
CallBox(js, j, id) == [js EXCEPT ![j].st = "running", ![j].id = id]

\* The call has ended, by return (st = "done") or by unwinding ("panicked").
EndCall(js, j, st) == [js EXCEPT ![j].st = st, ![j].id = -1]

\* Jobs still in the channel are destroyed with the Receiver.
DropQueued(js) ==
    [i \in DOMAIN js |-> IF js[i].st = "queued" THEN [js[i] EXCEPT !.st = "dropped"]
                         ELSE js[i]]

LastAlive(w) == \A v \in Workers : Alive(v) => v = w

\* Variant: a worker that takes a Join message does not pause; it goes on polling.
WorkerRecvSkipJoin(w) ==
    /\ mpc # "aborted"
    /\ threads[w].pc = "recv"
    /\ queue # <<>>
    /\ queue' = Tail(queue)
    /\ IF Head(queue).type = "NewJob"
       THEN /\ threads' = [threads EXCEPT ![w] = [pc |-> "run", job |-> Head(queue).job]]
            /\ jobs' = CallBox(jobs, Head(queue).job, w)
       ELSE UNCHANGED <<threads, jobs>>
    /\ UNCHANGED <<n, live, poolAlive, mpc, ji, worker_panic, joinKind, unwinding,
                   closurePanicked, result, scopes, joins, barrier, reported>>
    /\ UNCHANGED <<frameVars, cursor>>

\* Variant: recv() hands out the oldest job without removing it from the channel.
WorkerRecvNoPop(w) ==
    /\ mpc # "aborted"
    /\ threads[w].pc = "recv"
    /\ queue # <<>>
    /\ IF Head(queue).type = "NewJob"
       THEN /\ threads' = [threads EXCEPT ![w] = [pc |-> "run", job |-> Head(queue).job]]
            /\ jobs' = CallBox(jobs, Head(queue).job, w)
            /\ UNCHANGED queue
       ELSE /\ threads' = [threads EXCEPT ![w].pc = "send_sync"]
            /\ queue' = Tail(queue)
            /\ UNCHANGED jobs
    /\ UNCHANGED <<n, live, poolAlive, mpc, ji, worker_panic, joinKind, unwinding,
                   closurePanicked, result, scopes, joins, barrier, reported>>
    /\ UNCHANGED <<frameVars, cursor>>

\* job_receiver.lock().unwrap().recv() returns a message.
WorkerRecv(w) ==
    /\ mpc # "aborted"
    /\ threads[w].pc = "recv"
    /\ queue # <<>>
    /\ queue' = Tail(queue)
    /\ IF Head(queue).type = "NewJob"
       THEN /\ threads' = [threads EXCEPT ![w] = [pc |-> "run", job |-> Head(queue).job]]
            /\ jobs' = CallBox(jobs, Head(queue).job, w)
       ELSE /\ threads' = [threads EXCEPT ![w].pc = "send_sync"]
            /\ UNCHANGED jobs
    /\ UNCHANGED <<n, live, poolAlive, mpc, ji, worker_panic, joinKind, unwinding,
                   closurePanicked, result, scopes, joins, barrier, reported>>
    /\ UNCHANGED <<frameVars, cursor>>

\* job.call_box(id) returns: the body of the closure has run to its end.
JobReturn(w) ==
    /\ mpc # "aborted"
    /\ threads[w].pc = "run"
    /\ ~jobs[threads[w].job].panics
    /\ JobBodyDone(w)
    /\ jobs' = EndCall(jobs, threads[w].job, "done")
    /\ threads' = [threads EXCEPT ![w] = [pc |-> "recv", job |-> 0]]
    /\ cursor' = [cursor EXCEPT ![w] = 0]
    /\ UNCHANGED <<n, live, poolAlive, queue, mpc, ji, worker_panic, joinKind, unwinding,
                   closurePanicked, result, scopes, joins, barrier, reported>>
    /\ UNCHANGED frameVars

\* job.call_box(id) panics: the worker thread unwinds and drops its clone of the
\* receiver, its pool_sync_tx and its thread_sync_rx.
JobPanic(w) ==
    /\ mpc # "aborted"
    /\ threads[w].pc = "run"
    /\ jobs[threads[w].job].panics
    /\ threads' = [threads EXCEPT ![w] = [pc |-> "panicked", job |-> 0]]
    /\ LET js == EndCall(jobs, threads[w].job, "panicked")
       IN  IF LastAlive(w)
           THEN /\ jobs' = DropQueued(js)
                /\ queue' = <<>>
           ELSE /\ jobs' = js
                /\ UNCHANGED queue
    /\ UNCHANGED <<n, live, poolAlive, mpc, ji, worker_panic, joinKind, unwinding,
                   closurePanicked, result, scopes, joins, barrier, reported>>
    /\ UNCHANGED <<frameVars, cursor>>

\* The pool was dropped: recv() on the empty job channel, pool_sync_tx.send(())
\* or thread_sync_rx.recv() returns Err and the worker breaks out of its loop.
WorkerBreak(w) ==
    /\ mpc # "aborted"
    /\ ~poolAlive
    /\ \/ threads[w].pc = "recv" /\ queue = <<>>
       \/ threads[w].pc \in {"send_sync", "wait_sync"}
    /\ threads' = [threads EXCEPT ![w] = [pc |-> "exited", job |-> 0]]
    /\ IF LastAlive(w)
       THEN /\ jobs' = DropQueued(jobs)
            /\ queue' = <<>>
       ELSE UNCHANGED <<jobs, queue>>
    /\ UNCHANGED <<n, live, poolAlive, mpc, ji, worker_panic, joinKind, unwinding,
                   closurePanicked, result, scopes, joins, barrier, reported>>
    /\ UNCHANGED <<frameVars, cursor>>

----------------------------------------------------------------------------
\* Construction as a step: the program is about to call Pool::new(n).

NewInit ==
    /\ n \in 0 .. MaxThreads
    /\ poolAlive = FALSE
    /\ queue = <<>>
    /\ threads = <<>>
    /\ jobs = <<>>
    /\ mpc = "new"
    /\ ji = 0
    /\ worker_panic = FALSE
    /\ joinKind = "drop"
    /\ unwinding = FALSE
    /\ closurePanicked = FALSE
    /\ result = "none"
    /\ scopes = 0
    /\ joins = 0
    /\ barrier = 0
    /\ reported = FALSE
    /\ live = 0
    /\ cursor = <<>>
    /\ size = <<0, 0>>
    /\ particles = <<>>
    /\ count_buffer = <<>>
    /\ pixel_buffer = <<>>
    /\ phase = "none"
    /\ next_chunk = 0
    /\ frames = 0
    /\ last_counts = <<>>

\* Variant: Pool::new without its assert.
PoolNewNoAssert ==
    /\ mpc = "new"
    /\ threads' = [w \in 0 .. (n - 1) |-> [pc |-> "recv", job |-> 0]]
    /\ cursor' = [w \in 0 .. (n - 1) |-> 0]
    /\ poolAlive' = TRUE
    /\ mpc' = "outside"
    /\ UNCHANGED <<n, live, queue, jobs, ji, worker_panic, joinKind, unwinding,
                   closurePanicked, result, scopes, joins, barrier, reported>>
    /\ UNCHANGED frameVars

\* Pool::new(n): assert!(n >= 1) panics before any thread is spawned; otherwise
\* the loop spawns n threads and the Pool is returned.
PoolNewCall ==
    /\ mpc = "new"
    /\ IF n >= 1
       THEN /\ threads' = [w \in 0 .. (n - 1) |-> [pc |-> "recv", job |-> 0]]
            /\ cursor' = [w \in 0 .. (n - 1) |-> 0]
            /\ poolAlive' = TRUE
            /\ mpc' = "outside"
       ELSE /\ mpc' = "new_failed"
            /\ UNCHANGED <<threads, cursor, poolAlive>>
    /\ UNCHANGED <<n, live, queue, jobs, ji, worker_panic, joinKind, unwinding,
                   closurePanicked, result, scopes, joins, barrier, reported>>
    /\ UNCHANGED frameVars

----------------------------------------------------------------------------

Next ==
    \/ Scoped
    \/ \E p \in BOOLEAN : Execute(p)
    \/ JoinAllCall
    \/ ClosureReturn
    \/ ClosurePanic
    \/ JoinSend
    \/ JoinRecv
    \/ JoinCheck
    \/ JoinResume
    \/ DropPool
    \/ \E w \in Workers : WorkerRecv(w)
    \/ \E w \in Workers : JobReturn(w)
    \/ \E w \in Workers : JobPanic(w)
    \/ \E w \in Workers : WorkerBreak(w)

Spec == Init /\ [][Next]_vars

\* Runs in which every submitted job returns: no closure handed to execute panics.
LiveNext ==
    \/ Scoped
    \/ Execute(FALSE)
    \/ JoinAllCall
    \/ ClosureReturn
    \/ ClosurePanic
    \/ JoinSend
    \/ JoinRecv
    \/ JoinCheck
    \/ JoinResume
    \/ DropPool
    \/ \E w \in Workers : WorkerRecv(w)
    \/ \E w \in Workers : JobReturn(w)
    \/ \E w \in Workers : WorkerBreak(w)

\* A step of the main thread inside join_all.
MainJoinStep == JoinSend \/ JoinRecv \/ JoinCheck \/ JoinResume

\* A step of worker w: it takes a message when one is there, and the job it
\* runs returns.
WorkerStep(w) == w \in Workers /\ (WorkerRecv(w) \/ JobReturn(w))

\* Every thread that can take a step eventually takes one (the OS schedules
\* every runnable thread); what the program calls next is not forced.
Fairness ==
    /\ WF_vars(MainJoinStep)
    /\ \A w \in 0 .. (MaxThreads - 1) : WF_vars(WorkerStep(w))

LiveSpec == Init /\ [][LiveNext]_vars /\ Fairness

NestNext ==
    \/ NestedScoped
    \/ Next

NestSpec == Init /\ [][NestNext]_vars

NewNext ==
    \/ PoolNewCall
    \/ Next

NewSpec == NewInit /\ [][NewNext]_vars

----------------------------------------------------------------------------
\* The window: App::resumed, the first Resized event, then RedrawRequested events.

\* Positions of the model, for a window of w x h cells: on each axis a negative
\* value, 0, the last cells, the edge itself and a value past it.
XS(w) == {-1, 0, 2 * w - 3, 2 * w - 2, 2 * w, 2 * w + 1}
YS(h) == {-1, 0, 2 * h - 4, 2 * h - 2, 2 * h, 2 * h + 1}
Positions(w, h) ==
    {[x |-> x, y |-> 0] : x \in XS(w)} \cup {[x |-> 0, y |-> y] : y \in YS(h)}

ParticleSets(w, h) ==
    UNION {[1 .. k -> [1 .. Lanes -> Positions(w, h)]] : k \in 0 .. MaxParticles}

\* run() builds the pool; Resized has set the size and sized the count buffer
\* and the surface; the particles have moved to some positions.
Resized(sz, ps) ==
    /\ PoolNew
    /\ size = sz
    /\ particles = ps
    /\ count_buffer = Zeros(sz[1] * sz[2])
    /\ pixel_buffer = Zeros(sz[1] * sz[2])
    /\ phase = "idle"
    /\ next_chunk = 0
    /\ frames = 0
    /\ last_counts = <<>>

FrameInit ==
    \E sz \in GridSizes : \E ps \in ParticleSets(sz[1], sz[2]) : Resized(sz, ps)

\* Positions in the tall window: the first cell, a cell of the last row but one
\* and a cell of the last column.
TallPositions ==
    {[x |-> 0, y |-> 0], [x |-> 0, y |-> 2 * TallSize[2] - 4],
     [x |-> 2 * TallSize[1] - 2, y |-> 0]}

TallInit ==
    \E ps \in UNION {[1 .. k -> [1 .. Lanes -> TallPositions]] : k \in 0 .. MaxParticles} :
        Resized(TallSize, ps)

\* RedrawRequested, lines 154-167: the counts are reset and the count round's
\* scope is opened.
FrameBegin ==
    /\ mpc = "outside"
    /\ phase = "idle"
    /\ frames < MaxFrames
    /\ count_buffer' = ResetCounts(count_buffer)
    /\ phase' = "count"
    /\ next_chunk' = 0
    /\ jobs' = <<>>
    /\ EnterScoped
    /\ UNCHANGED <<n, poolAlive, queue, threads, ji, worker_panic, joinKind, barrier,
                   reported, size, particles, pixel_buffer, frames, last_counts, cursor>>

\* Count round, lines 168-190: one job per chunk of particles.
FrameExecuteCount ==
    /\ mpc = "closure"
    /\ phase = "count"
    /\ LET cl == ChunkLen(Len(particles))
       IN  /\ next_chunk < NumChunks(Len(particles), cl)
           /\ ExecuteJob(JobRec("count", next_chunk * cl,
                                Min((next_chunk + 1) * cl, Len(particles)), FALSE))
    /\ next_chunk' = next_chunk + 1
    /\ UNCHANGED <<n, live, poolAlive, threads, closurePanicked, result, scopes, joins, reported,
                   size, particles, count_buffer, pixel_buffer, phase, frames,
                   last_counts, cursor>>

\* Pixel round, lines 210-235: one job per whole chunk of cells.
FrameExecutePixel ==
    /\ mpc = "closure"
    /\ phase = "pixel"
    /\ LET cl == ChunkLen(Len(pixel_buffer))
       IN  /\ next_chunk < NumExactChunks(Len(pixel_buffer), cl)
           /\ ExecuteJob(JobRec("pixel", next_chunk * cl, (next_chunk + 1) * cl, FALSE))
    /\ next_chunk' = next_chunk + 1
    /\ UNCHANGED <<n, live, poolAlive, threads, closurePanicked, result, scopes, joins, reported,
                   size, particles, count_buffer, pixel_buffer, phase, frames,
                   last_counts, cursor>>

\* The closure of either round returns after its last chunk; the Scope is dropped.
FrameClosureReturn ==
    /\ mpc = "closure"
    /\ phase \in {"count", "pixel"}
    /\ next_chunk = IF phase = "count"
                    THEN NumChunks(Len(particles), ChunkLen(Len(particles)))
                    ELSE NumExactChunks(Len(pixel_buffer), ChunkLen(Len(pixel_buffer)))
    /\ BeginJoin("drop", FALSE)
    /\ UNCHANGED <<n, live, poolAlive, queue, threads, jobs, closurePanicked, result, scopes,
                   joins, reported, frameVars, cursor>>

\* Lines 193-209: the count round's scoped call has returned; the pixel round's
\* scope is opened.
FramePixelBegin ==
    /\ mpc = "outside"
    /\ phase = "count"
    /\ result = "returned"
    /\ last_counts' = count_buffer
    /\ phase' = "pixel"
    /\ next_chunk' = 0
    /\ jobs' = <<>>
    /\ EnterScoped
    /\ UNCHANGED <<n, poolAlive, queue, threads, ji, worker_panic, joinKind, barrier,
                   reported, size, particles, count_buffer, pixel_buffer, frames, cursor>>

\* Line 238: pixel_buffer.present(); the handler returns.
FramePresent ==
    /\ mpc = "outside"
    /\ phase = "pixel"
    /\ result = "returned"
    /\ phase' = "idle"
    /\ frames' = frames + 1
    /\ UNCHANGED <<poolVars, size, particles, count_buffer, pixel_buffer, next_chunk,
                   last_counts, cursor>>

\* A count job handles its next point (lines 171-187).  Indexing past the end of
\* count_buffer panics.
CountStep(w) ==
    /\ mpc # "aborted"
    /\ threads[w].pc = "run"
    /\ jobs[threads[w].job].kind = "count"
    /\ cursor[w] < CountJobLen(jobs[threads[w].job])
    /\ LET pt  == LaneAt(jobs[threads[w].job], cursor[w])
           idx == CellIndex(pt, size[1], size[2])
           add == IF Inside(pt, size[1], size[2]) THEN 1 ELSE 0
       IN  IF idx < Len(count_buffer)
           THEN /\ count_buffer' = FetchAdd(count_buffer, idx, add)
                /\ cursor' = [cursor EXCEPT ![w] = @ + 1]
                /\ UNCHANGED <<threads, jobs, queue>>
           ELSE /\ threads' = [threads EXCEPT ![w] = [pc |-> "panicked", job |-> 0]]
                /\ jobs' = IF LastAlive(w)
                           THEN DropQueued(EndCall(jobs, threads[w].job, "panicked"))
                           ELSE EndCall(jobs, threads[w].job, "panicked")
                /\ queue' = IF LastAlive(w) THEN <<>> ELSE queue
                /\ UNCHANGED <<count_buffer, cursor>>
    /\ UNCHANGED <<n, live, poolAlive, mpc, ji, worker_panic, joinKind, unwinding,
                   closurePanicked, result, scopes, joins, barrier, reported, size,
                   particles, pixel_buffer, phase, next_chunk, frames, last_counts>>

\* A pixel job colours the cells of its chunk (lines 216-233) and returns; the
\* chunk is an exclusive slice, no other thread reads or writes it.
PixelStep(w) ==
    /\ mpc # "aborted"
    /\ threads[w].pc = "run"
    /\ jobs[threads[w].job].kind = "pixel"
    /\ pixel_buffer' =
          [i \in 1 .. Len(pixel_buffer) |->
              IF /\ i - 1 >= jobs[threads[w].job].lo
                 /\ i - 1 < jobs[threads[w].job].hi
              THEN Pixel(count_buffer[i], i - 1, size[1], size[2])
              ELSE pixel_buffer[i]]
    /\ jobs' = EndCall(jobs, threads[w].job, "done")
    /\ threads' = [threads EXCEPT ![w] = [pc |-> "recv", job |-> 0]]
    /\ UNCHANGED <<n, live, poolAlive, queue, mpc, ji, worker_panic, joinKind, unwinding,
                   closurePanicked, result, scopes, joins, barrier, reported, size,
                   particles, count_buffer, phase, next_chunk, frames, last_counts,
                   cursor>>

FrameNext ==
    \/ FrameBegin
    \/ FrameExecuteCount
    \/ FrameExecutePixel
    \/ FrameClosureReturn
    \/ FramePixelBegin
    \/ FramePresent
    \/ JoinSend
    \/ JoinRecv
    \/ JoinCheck
    \/ JoinResume
    \/ \E w \in Workers : WorkerRecv(w)
    \/ \E w \in Workers : CountStep(w)
    \/ \E w \in Workers : PixelStep(w)
    \/ \E w \in Workers : JobReturn(w)

FrameSpec == FrameInit /\ [][FrameNext]_vars

TallSpec == TallInit /\ [][FrameNext]_vars

----------------------------------------------------------------------------
\* A crowded cell.  All particles start at one position (new_random, and
\* new_from_existing copies it), 64 points each, so one cell can receive more
\* than 65535 points in a frame.  The specification starts inside the closure of
\* a count round whose earlier chunks have been counted: cell 0 has received
\* 65535 points, and particles holds the elements still to be handed out.

CrowdSize == <<4, 2>>

\* Positions of the remaining elements: in cell 0, or outside the window.
CrowdPositions == {[x |-> 0, y |-> 0], [x |-> 2 * CrowdSize[1], y |-> 0]}

CrowdInit ==
    /\ n \in 1 .. MaxThreads
    /\ poolAlive = TRUE
    /\ queue = <<>>
    /\ threads = [w \in 0 .. (n - 1) |-> [pc |-> "recv", job |-> 0]]
    /\ jobs = <<>>
    /\ mpc = "closure"
    /\ ji = 0
    /\ worker_panic = FALSE
    /\ joinKind = "drop"
    /\ unwinding = FALSE
    /\ closurePanicked = FALSE
    /\ result = "none"
    /\ scopes = 1
    /\ joins = 0
    /\ barrier = 0
    /\ reported = FALSE
    /\ live = 1
    /\ cursor = [w \in 0 .. (n - 1) |-> 0]
    /\ size = CrowdSize
    /\ particles \in UNION {[1 .. k -> [1 .. Lanes -> CrowdPositions]] : k \in 1 .. MaxParticles}
    /\ count_buffer = [i \in 1 .. (CrowdSize[1] * CrowdSize[2]) |->
                          IF i = 1 THEN U16Mod - 1 ELSE 0]
    /\ pixel_buffer = Zeros(CrowdSize[1] * CrowdSize[2])
    /\ phase = "count"
    /\ next_chunk = 0
    /\ frames = 0
    /\ last_counts = <<>>

CrowdSpec == CrowdInit /\ [][FrameNext]_vars

----------------------------------------------------------------------------
\* Resized events, from the state App::resumed leaves: size (0, 0), no particles,
\* an empty count buffer and a surface that has no size yet.

\* Sizes a Resized event carries; a window can be given a zero width or height.
ResizeSizes == {<<4, 4>>, <<2, 4>>, <<0, 4>>, <<4, 0>>}

Resumed ==
    /\ PoolNew
    /\ size = <<0, 0>>
    /\ particles = <<>>
    /\ count_buffer = <<>>
    /\ pixel_buffer = <<>>
    /\ phase = "resumed"
    /\ next_chunk = 0
    /\ frames = 0
    /\ last_counts = <<>>

\* Particles::shift(dx / 2.0, dy / 2.0), dx and dy in cells.
Shift(ps, dx, dy) ==
    [i \in DOMAIN ps |->
        [l \in DOMAIN ps[i] |-> [x |-> ps[i][l].x + dx, y |-> ps[i][l].y + dy]]]

\* add_particles on an empty set: new_random puts every lane of the first
\* particle at (width / 2, height / 2) and the others copy its position.
\* MaxParticles stands for N_INITIAL_PARTICELS.
AddParticles(w, h) ==
    [i \in 1 .. MaxParticles |-> [l \in 1 .. Lanes |-> [x |-> w, y |-> h]]]

\* Vec::resize_with(len, || AtomicU16::new(0)): truncates, or pads with zeros.
ResizeWith(buf, len) == [i \in 1 .. len |-> IF i <= Len(buf) THEN buf[i] ELSE 0]

\* WindowEvent::Resized (lines 84-106).  NonZeroU32::new(0).unwrap() panics in
\* the handler, after the size and the count buffer have been changed.
ResizedEvent(sz) ==
    /\ mpc = "outside"
    /\ phase \in {"resumed", "idle"}
    /\ LET shifted == Shift(particles, sz[1] - size[1], sz[2] - size[2])
       IN  particles' = IF shifted = <<>> THEN AddParticles(sz[1], sz[2]) ELSE shifted
    /\ size' = sz
    /\ count_buffer' = ResizeWith(count_buffer, sz[1] * sz[2])
    /\ IF sz[1] = 0 \/ sz[2] = 0
       THEN /\ phase' = "fault"
            /\ UNCHANGED pixel_buffer
       ELSE /\ phase' = "idle"
            /\ pixel_buffer' = Zeros(sz[1] * sz[2])
    /\ UNCHANGED <<poolVars, next_chunk, frames, last_counts, cursor>>

ResizeNext ==
    \/ \E sz \in ResizeSizes : ResizedEvent(sz)
    \/ FrameNext

ResizeSpec == Resumed /\ [][ResizeNext]_vars

----------------------------------------------------------------------------
\* Properties of the pool.

ScopeJobs == {j \in DOMAIN jobs : jobs[j].scope = scopes}

LeftScoped == mpc \in {"outside", "dropped"}

\* C1 (join completeness): whenever Pool::scoped has returned normally, every job
\* submitted in that scope has finished executing; none is queued or running, and
\* (no job having panicked) this holds for every job ever submitted to the pool.
C1_JoinCompleteness ==
    (LeftScoped /\ result = "returned") =>
        /\ \A j \in DOMAIN jobs : jobs[j].st = "done"
        /\ \A w \in Workers : threads[w].pc # "run"
        /\ \A i \in DOMAIN queue : queue[i].type # "NewJob"

C1_Witness ==
    /\ mpc = "outside"
    /\ result = "returned"
    /\ Cardinality(ScopeJobs) = MaxJobs
    /\ Cardinality(ScopeJobs) > n

\* C2 (soundness under job panic): join_all raises its panic only when every
\* surviving worker has paused (is waiting for the resume message) and no job is
\* running; once scoped has finished unwinding, no job of the scope is running
\* or still queued.
C2_PanicAfterAllPaused ==
    /\ (mpc = "join_check" /\ worker_panic) =>
          /\ \A w \in Workers : Alive(w) => threads[w].pc = "wait_sync"
          /\ \A j \in DOMAIN jobs : jobs[j].st \notin {"running", "queued"}
    /\ (LeftScoped /\ result = "panicked") =>
          \A j \in ScopeJobs : jobs[j].st \notin {"running", "queued"}

C2_Witness ==
    /\ mpc = "outside"
    /\ result = "panicked"
    /\ reported
    /\ \E a, b \in ScopeJobs : jobs[a].st = "panicked" /\ jobs[b].st = "done"
    /\ \E w \in Workers : threads[w].pc = "wait_sync"

\* C3 (panic propagation): once a job of the current scope has panicked, the
\* scoped call does not return normally, and the join run by Drop for Scope never
\* comes to a state in which neither it nor any worker can take another step.
C3_PanicPropagates ==
    (\E j \in ScopeJobs : jobs[j].st = "panicked") =>
        /\ result # "returned"
        /\ (mpc \in JoinPcs /\ joinKind = "drop") => ENABLED Next

\* C4 (a poisoned pool does not deadlock): after join_all has reported a worker
\* panic out of an earlier scoped call and the Pool is still alive, a later scope's
\* execute and join calls are never stuck: inside the later scoped call some step
\* of the main thread or of a worker is always possible.
C4_PoisonedPoolNoDeadlock ==
    (/\ reported
     /\ poolAlive
     /\ \E j \in DOMAIN jobs : jobs[j].st = "panicked" /\ jobs[j].scope < scopes
     /\ mpc \in JoinPcs \cup {"closure"}) => ENABLED Next

\* C5 (barrier ordering): a job submitted after a join barrier has not started
\* unless every job submitted before that barrier has completed, inside one scope
\* and across scopes.
C5_BarrierOrdering ==
    \A a, b \in DOMAIN jobs :
        (jobs[a].epoch < jobs[b].epoch /\ jobs[b].st \notin {"queued", "dropped"})
            => jobs[a].st = "done"

C5_Witness ==
    \E a, b, c \in DOMAIN jobs :
        /\ jobs[a].scope = jobs[b].scope
        /\ jobs[a].epoch < jobs[b].epoch
        /\ jobs[b].scope < jobs[c].scope
        /\ jobs[c].st = "running"

C11_TeardownWaits ==
    mpc = "dropped" => \A w \in Workers : threads[w].pc \in {"exited", "panicked"}

\* C12 (construction): Pool::new(0) produces no Pool and spawns no thread; for
\* n >= 1 the pool has exactly the n workers 0 .. n-1, thread_count() is n, and
\* right after construction every worker waits for its first message.
C12_NewRejectsZero ==
    /\ n = 0 => (~poolAlive /\ threads = <<>> /\ mpc \in {"new", "new_failed"})
    /\ mpc = "new" => (~poolAlive /\ threads = <<>>)
    /\ (n >= 1 /\ mpc # "new") =>
          /\ mpc # "new_failed"
          /\ DOMAIN threads = 0 .. (n - 1)
          /\ ThreadCount = n
          /\ (mpc = "outside" /\ scopes = 0) =>
                (poolAlive /\ \A w \in Workers : threads[w].pc = "recv")

C12_Witness ==
    /\ mpc = "new_failed"
    /\ n = 0
    /\ ThreadCount = 0

\* Worker w leaves its paused state and goes back to polling the job queue.
ResumeStep(w) == threads[w].pc \in {"send_sync", "wait_sync"} /\ threads'[w].pc = "recv"

\* Worker w takes a message from the job queue.
DequeueStep(w) == threads[w].pc = "recv" /\ threads'[w].pc \in {"run", "send_sync"}

\* The barrier after which the message was enqueued.
MessageEpoch(m) == IF m.type = "NewJob" THEN jobs[m.job].epoch ELSE barrier - 1

\* C14 (two-phase handshake): a worker is resumed only when every worker of the
\* pool has acknowledged "paused" (each other worker is still paused, or has been
\* resumed before it in this barrier) and the queue is empty; and a worker takes
\* a message from the queue only when no other worker still runs a job submitted
\* before the barrier that precedes the message.
C14_TwoPhaseHandshake ==
    [][/\ \A w \in Workers : ResumeStep(w) =>
             /\ queue = <<>>
             /\ \A v \in Workers \ {w} :
                    \/ threads[v].pc = "wait_sync"
                    \/ v < w /\ threads[v].pc = "recv"
       /\ \A w \in Workers : DequeueStep(w) =>
             \A v \in Workers \ {w} :
                 threads[v].pc = "run" =>
                     jobs[threads[v].job].epoch >= MessageEpoch(Head(queue))]_vars

C14_Witness ==
    /\ n = MaxThreads
    /\ mpc = "join_resume"
    /\ ji = n - 1
    /\ barrier >= 2
    /\ \A v \in Workers : threads[v].pc = IF v < ji THEN "recv" ELSE "wait_sync"
    /\ \E a, b \in DOMAIN jobs : jobs[a].epoch < jobs[b].epoch /\ jobs[b].st = "done"

JoinsInQueue == Cardinality({i \in DOMAIN queue : queue[i].type = "Join"})

Paused == {w \in Workers : threads[w].pc \in {"send_sync", "wait_sync"}}

AllAlive == \A w \in Workers : Alive(w)

\* C15 (one Join per worker): on a pool whose workers are all alive, every Join
\* message sent in a barrier is either still in the queue or held by a worker of
\* its own that has paused on it; when the resume loop starts no Join is left and
\* the workers not yet resumed are all paused, so no worker took two; outside a
\* barrier no Join is in the queue and no worker is paused.
C15_OneJoinPerWorker ==
    AllAlive =>
        /\ mpc = "join_send" => JoinsInQueue + Cardinality(Paused) = ji
        /\ mpc \in {"join_recv", "join_check"} => JoinsInQueue + Cardinality(Paused) = n
        /\ mpc = "join_resume" => (JoinsInQueue = 0 /\ Paused = ji .. (n - 1))
        /\ mpc \in {"closure", "outside", "dropped"} => (JoinsInQueue = 0 /\ Paused = {})

C15_Witness ==
    /\ AllAlive
    /\ n = MaxThreads
    /\ mpc = "join_recv"
    /\ JoinsInQueue = n - 1
    /\ Cardinality(Paused) = 1
    /\ \E w \in Workers : threads[w].pc = "run"

\* The closure's explicit join_all has panicked because a job of the scope,
\* submitted before that call, had panicked; Drop for Scope runs the second join.
ExplicitJoinRaised ==
    /\ joins >= 1
    /\ joinKind = "drop"
    /\ unwinding
    /\ ~closurePanicked
    /\ \E j \in ScopeJobs : jobs[j].st = "panicked" /\ jobs[j].epoch <= barrier - 2

\* C16 (failure through an explicit join): after the explicit join_all has
\* re-raised a job's panic, the join run when the Scope is destroyed is never
\* stuck and does not abort the process, so that the panic can leave Pool::scoped.
C16_ExplicitJoinPropagates ==
    ExplicitJoinRaised =>
        /\ mpc # "aborted"
        /\ mpc \in JoinPcs => ENABLED Next

\* C17 (fixed worker set): as long as the Pool exists, each of its n worker
\* threads is alive.
C17_FixedWorkerSet ==
    poolAlive => (Cardinality(Workers) = n /\ \A w \in Workers : Alive(w))

----------------------------------------------------------------------------
\* Properties of the accumulation.

Width  == size[1]
Height == size[2]

\* The count round of the current frame is complete: its scoped call has returned.
CountRoundDone == phase = "count" /\ mpc = "outside" /\ result = "returned"

\* Both rounds of the current frame are complete.
FrameDone == phase = "pixel" /\ mpc = "outside" /\ result = "returned"

\* All points of the element set, as <<particle, lane>> pairs.
Points == {<<k, l>> : k \in 1 .. Len(particles), l \in 1 .. Lanes}
At(pt) == particles[pt[1]][pt[2]]

\* The position lies in the grid: 0 <= x < W and 0 <= y < H.
InGrid(p) == p.x >= 0 /\ p.x < 2 * Width /\ p.y >= 0 /\ p.y < 2 * Height

\* The position is a pair of integers.
Integral(p) == p.x % 2 = 0 /\ p.y % 2 = 0

\* Single-threaded reference count of the cell at index i.
RefCount(i) ==
    Cardinality({pt \in Points :
        /\ InGrid(At(pt))
        /\ (At(pt).x \div 2) + (At(pt).y \div 2) * Width = i})

Cells == 0 .. (Width * Height - 1)

\* C7 (reduction correctness): with every element at an integer position inside
\* the grid, after the count round each cell holds the number of elements whose
\* position falls in it, for every pool size.
C7_CountsMatchReference ==
    (CountRoundDone /\ \A pt \in Points : InGrid(At(pt)) /\ Integral(At(pt))) =>
        \A i \in Cells : count_buffer[i + 1] = RefCount(i)

\* C8 (boundary exclusion): an element at x = W, y = H, beyond, or at a negative
\* coordinate adds nothing to any cell: at any moment no cell holds more than the
\* number of in-grid elements that fall in it, every index computed for a point
\* is inside the buffer, and no worker has panicked.
C8_BoundaryExclusion ==
    phase \in {"count", "pixel", "idle"} =>
        /\ \A i \in Cells : count_buffer[i + 1] <= RefCount(i)
        /\ \A pt \in Points : CellIndex(At(pt), Width, Height) \in Cells
        /\ \A w \in Workers : threads[w].pc # "panicked"

C8_Witness ==
    /\ CountRoundDone
    /\ \E pt \in Points : At(pt).x = 2 * Width
    /\ \E i \in Cells : count_buffer[i + 1] = 1

\* C13 (degenerate input): with no elements, or with a grid of zero width or
\* zero height, the handlers do not panic, no job panics, and every cell of the
\* count grid is zero.
C13_DegenerateNoFault ==
    (Len(particles) = 0 \/ Width = 0 \/ Height = 0) =>
        /\ phase # "fault"
        /\ \A w \in Workers : threads[w].pc # "panicked"
        /\ \A i \in DOMAIN count_buffer : count_buffer[i] = 0

\* The counts after a sequential pass over all points.
RECURSIVE CountInto(_, _)
CountInto(buf, c) ==
    IF c = Len(particles) * Lanes
    THEN buf
    ELSE LET pt == particles[(c \div Lanes) + 1][(c % Lanes) + 1]
         IN  CountInto(FetchAdd(buf, CellIndex(pt, Width, Height),
                                IF Inside(pt, Width, Height) THEN 1 ELSE 0), c + 1)

\* The grid a frame leaves when its jobs run one after the other on a pool of k
\* threads; a cell no job writes keeps the zero of the surface.
FrameResult(k) ==
    LET len     == Width * Height
        cl      == ChunkLenFor(len, k)
        written == NumExactChunks(len, cl) * cl
        counts  == CountInto(Zeros(len), 0)
    IN  [i \in 1 .. len |-> IF i - 1 < written
                            THEN Pixel(counts[i], i - 1, Width, Height)
                            ELSE 0]

\* C9 (determinism): the finished grid of a frame is the grid a sequential run
\* produces, the same for every pool size and every interleaving of the jobs.
C9_FrameDeterministic ==
    FrameDone => \A k \in 1 .. MaxThreads : pixel_buffer = FrameResult(k)

\* C10 (idempotence under re-run): the count round of a later frame, run on the
\* unchanged element set and grid, leaves exactly the counts of the frame before.
C10_RerunSameCounts ==
    (CountRoundDone /\ frames >= 1) => count_buffer = last_counts

C10_Witness ==
    /\ CountRoundDone
    /\ frames = 1
    /\ \E i \in Cells : count_buffer[i + 1] = MaxParticles * Lanes

\* The chunks of cells handed to the pixel jobs of the current round.
PixelJobs == {j \in DOMAIN jobs : jobs[j].kind = "pixel"}

\* The closure of the current round has handed out all its chunks.
RoundSubmitted(ph) == phase = ph /\ mpc \in JoinPcs \cup {"outside"}

\* C18 (pixel-round partition): once the pixel round has submitted its jobs, every
\* cell index of the grid belongs to the chunk of exactly one job.
C18_PixelPartition ==
    RoundSubmitted("pixel") =>
        \A i \in Cells :
            Cardinality({j \in PixelJobs : jobs[j].lo <= i /\ i < jobs[j].hi}) = 1

\* Worker w runs a count job and is at the fetch_add of its next point.
Counting(w) ==
    /\ threads[w].pc = "run"
    /\ jobs[threads[w].job].kind = "count"
    /\ cursor[w] < CountJobLen(jobs[threads[w].job])

\* The cell of count_buffer that fetch_add is applied to.
TargetCell(w) == CellIndex(LaneAt(jobs[threads[w].job], cursor[w]), Width, Height)

\* C19 (count-round write exclusivity): two different workers are never both at
\* an increment of the same cell of the same count buffer.
C19_WriteExclusive ==
    \A w, v \in Workers :
        (w # v /\ Counting(w) /\ Counting(v)) => TargetCell(w) # TargetCell(v)

\* C20 (partitioning policy): the number of jobs the count round submits, one per
\* chunk of the element sequence, is a multiple of the worker count.
C20_ChunksMultipleOfN ==
    RoundSubmitted("count") =>
        Cardinality({j \in DOMAIN jobs : jobs[j].kind = "count"}) % n = 0

\* C21 (overflow policy): within a count round a cell that holds the largest
\* 16-bit value keeps it, whatever is added to it afterwards.
C21_Saturates ==
    [][(phase = "count" /\ phase' = "count") =>
          \A i \in DOMAIN count_buffer :
              count_buffer[i] = U16Mod - 1 => count_buffer'[i] = U16Mod - 1]_vars

\* C22 (scope exclusivity): at most one Scope of the Pool exists at any time.
C22_ScopeExclusive == live <= 1

\* Messages in the channel that carry job j, and workers that are calling it.
InQueue(j) == {i \in DOMAIN queue : queue[i] = NewJob(j)}
RunningBy(j) == {w \in Workers : threads[w].pc = "run" /\ threads[w].job = j}

NoJobPanics == \A j \in DOMAIN jobs : ~jobs[j].panics

\* C23 (exactly-once execution): as long as no submitted job panics, every job is
\* in exactly one place: once in the queue (not yet started), in the hands of
\* exactly one worker (being executed), or done; a job that is done is neither
\* in the queue nor executed again, and none is dropped.
C23_ExactlyOnce ==
    NoJobPanics =>
        \A j \in DOMAIN jobs :
            /\ jobs[j].st \in {"queued", "running", "done"}
            /\ Cardinality(InQueue(j)) = (IF jobs[j].st = "queued" THEN 1 ELSE 0)
            /\ Cardinality(RunningBy(j)) = (IF jobs[j].st = "running" THEN 1 ELSE 0)

C23_Witness ==
    /\ NoJobPanics
    /\ n = MaxThreads
    /\ Len(jobs) = MaxJobs
    /\ \E a, b, c \in DOMAIN jobs :
          jobs[a].st = "done" /\ jobs[b].st = "running" /\ jobs[c].st = "queued"

\* Jobs being executed now.
Executing == {j \in DOMAIN jobs : jobs[j].st = "running"}

\* C24 (worker identity): the id a job is called with is the index of the worker
\* thread that executes it, it lies in 0 .. N-1, and no two jobs that are being
\* executed have the same id.
C24_WorkerIdentity ==
    /\ \A j \in Executing :
          /\ jobs[j].id \in 0 .. (n - 1)
          /\ threads[jobs[j].id].pc = "run"
          /\ threads[jobs[j].id].job = j
    /\ \A j, k \in Executing : j # k => jobs[j].id # jobs[k].id

C24_Witness ==
    /\ Cardinality(Executing) = MaxThreads
    /\ \E j \in Executing : jobs[j].id = MaxThreads - 1
    /\ \E j \in DOMAIN jobs : jobs[j].st = "done" /\ jobs[j].id = -1

\* C25 (barrier liveness): when no job panics, every join_all that has been
\* entered eventually returns, to the closure or out of Pool::scoped, and every
\* worker that has paused on a Join eventually polls the job queue again.
C25_BarrierLiveness ==
    /\ (mpc \in JoinPcs) ~> (mpc \in {"closure", "outside"})
    /\ \A w \in 0 .. (MaxThreads - 1) :
          (w \in Workers /\ threads[w].pc \in {"send_sync", "wait_sync"})
              ~> (w \in Workers /\ threads[w].pc = "recv")

C25_Witness ==
    /\ n = MaxThreads
    /\ mpc = "outside"
    /\ result = "returned"
    /\ jobs = <<>>
    /\ joins = MaxJoins
    /\ barrier = MaxScopes * (MaxJoins + 1)
    /\ \A w \in Workers : threads[w].pc = "recv"

====
